---------------------------- MODULE Spec2Model ----------------------------
(***************************************************************************)
(* A model of angr's PathGroup (src/angr/path_group.py): the stash store,  *)
(* the immutability wrapper (_copy_stashes / _successor), the filter/move  *)
(* primitives and the public operations built on them.                     *)
(*                                                                         *)
(* A path object is a natural number: its identity.  p.copy() yields the   *)
(* object p + CloneStride, so a clone is a different object that behaves   *)
(* like the path it was cloned from (Base).  What the external             *)
(* execution-state engine answers for a path (address, error marker,       *)
(* successors, ...) is a fixed table over the path universe.               *)
(***************************************************************************)
EXTENDS Integers, Sequences, FiniteSets, TLC

VARIABLES pgs, hier, last, nops

vars == <<pgs, hier, last, nops>>

(***************************************************************************)
(* Bounds of the model.                                                    *)
(***************************************************************************)
\* longest stash an initial state seeds
MaxLen == 2
\* number of public calls the driver makes in the general specification
MaxOps == 2
\* largest explicit round count n passed to step and explore
MaxN == 2
\* largest explicit limit passed to split
MaxLimit == 2
\* longest source stash the split specification seeds
MaxSplitLen == 5
\* longest stash the merge specification seeds
MaxMergeLen == 4
\* per-round iteration fuel of _one_step: a round that visits more list
\* positions than this is reported as not returning ("hang")
MaxIter == 8

(***************************************************************************)
(* Python values.                                                          *)
(***************************************************************************)
\* an optional argument: None is the empty set, a given value v is {v}
None == {}

Some(v) == {v}

OrDefault(x, d) == IF x = None THEN d ELSE CHOOSE v \in x : TRUE

\* list helpers
Range(s) == {s[i] : i \in 1..Len(s)}

\* the slice s[:k + 1]
Take_more(s, k) == SubSeq(s, 1, IF k + 1 < Len(s) THEN k + 1 ELSE Len(s))

\* the slice s[:k]
Take(s, k) == SubSeq(s, 1, IF k < Len(s) THEN k ELSE Len(s))

\* the slice s[k:]
Drop(s, k) == SubSeq(s, (IF k < Len(s) THEN k ELSE Len(s)) + 1, Len(s))

\* dict helpers: a stash store is a function from stash names to lists
Has(st, k) == k \in DOMAIN st

Put(st, k, v) == IF Has(st, k) THEN [st EXCEPT ![k] = v] ELSE st @@ (k :> v)

Del(st, k) == [x \in (DOMAIN st) \ {k} |-> st[x]]

(***************************************************************************)
(* The path universe: what the execution-state engine answers.             *)
(***************************************************************************)
CloneStride == 100

Base(p) == p % CloneStride

\* Path.copy(): a fresh object behaving like p
copy(p) == p + CloneStride

\* Path.addr
addr(p) == <<1, 1, 2, 2, 3, 3, 2, 3, 4, 4, 4, 5, 5, 5, 5, 4, 2, 2, 5>>[Base(p)]

\* Path.error: "none", a PathUnreachableError ("unreachable") or another error
error(p) ==
    CASE Base(p) \in {4, 17} -> "unreachable"
      [] Base(p) \in {3, 18} -> "other"
      [] OTHER -> "none"

\* Path.errored
errored(p) == error(p) # "none"

\* computing the successors of these paths raises an unexpected exception
raises(p) == Base(p) \in {5, 8}

\* Path.successors
successors(p) ==
    CASE Base(p) = 1 -> <<7, 8>>
      [] Base(p) = 6 -> <<19>>
      [] Base(p) = 7 -> <<12>>
      [] OTHER -> <<>>

\* Path.unconstrained_successors
unconstrained_successors(p) ==
    CASE Base(p) = 1 -> <<9>>
      [] Base(p) = 2 -> <<11>>
      [] OTHER -> <<>>

\* Path.unsat_successors
unsat_successors(p) ==
    CASE Base(p) = 1 -> <<10>>
      [] OTHER -> <<>>

\* Path.state.satisfiable()
satisfiable(p) == Base(p) \notin {6, 10}

\* the SSE analysis (veritesting): sse.result['result'] and the stash store
\* of sse.result['final_path_group'], a path group that is modified in place
SSE(p) ==
    CASE Base(p) = 1 ->
           [result |-> TRUE,
            final_path_group |-> [active |-> <<>>, deviated |-> <<13>>,
                                  successful |-> <<14>>, deadended |-> <<15>>]]
      [] Base(p) = 2 ->
           [result |-> TRUE,
            final_path_group |-> [active |-> <<>>, deviated |-> <<>>,
                                  successful |-> <<>>]]
      [] OTHER -> [result |-> FALSE, final_path_group |-> [active |-> <<>>]]

(***************************************************************************)
(* Callables a caller may pass.  A callable is a record naming what it     *)
(* computes; Call applies a path predicate to a path.                      *)
(***************************************************************************)
AddrIs(a) == [kind |-> "addr_eq", addrs |-> {a}]

AddrIsNot(a) == [kind |-> "addr_ne", addrs |-> {a}]

AddrIn(as) == [kind |-> "addr_in", addrs |-> as]

Const(b) == [kind |-> IF b THEN "true" ELSE "false", addrs |-> {}]

Call(f, p) ==
    CASE f.kind = "addr_eq" -> addr(p) \in f.addrs
      [] f.kind = "addr_in" -> addr(p) \in f.addrs
      [] f.kind = "addr_ne" -> addr(p) \notin f.addrs
      [] f.kind = "true" -> TRUE
      [] f.kind = "false" -> FALSE

\* a caller's successor function: the path's successors, last first
CallSuccessorFunc(f, p) ==
    LET s == successors(p) IN [i \in 1..Len(s) |-> s[Len(s) + 1 - i]]

(***************************************************************************)
(* PathGroup.__init__                                                      *)
(***************************************************************************)
DefaultStashes(active_paths) ==
    [active |-> OrDefault(active_paths, <<>>), stashed |-> <<>>, pruned |-> <<>>,
     unsat |-> <<>>, errored |-> <<>>, deadended |-> <<>>, unconstrained |-> <<>>]

\* fresh_hierarchy: the PathHierarchy() object a call without one creates
PathGroup(active_paths, stashes, hierarchy, veritesting, veritesting_options, immutable, resilience, save_unconstrained, save_unsat, fresh_hierarchy) ==
    [hierarchy |-> OrDefault(hierarchy, fresh_hierarchy),
     immutable |-> OrDefault(immutable, TRUE),
     veritesting |-> OrDefault(veritesting, FALSE),
     resilience |-> OrDefault(resilience, FALSE),
     veritesting_options |-> OrDefault(veritesting_options, "{}"),
     save_unconstrained |-> OrDefault(save_unconstrained, FALSE),
     save_unsat |-> OrDefault(save_unsat, FALSE),
     stashes |-> OrDefault(stashes, DefaultStashes(active_paths))]

(***************************************************************************)
(* Util functions                                                          *)
(***************************************************************************)
\* _copy_paths (not called by any operation)
_copy_paths(self, paths) ==
    IF self.immutable THEN [i \in 1..Len(paths) |-> copy(paths[i])] ELSE paths

\* _copy_stashes without the copy: the working store is always self.stashes
_copy_stashes_aliased(self) ==
    [stashes |-> self.stashes, aliased |-> TRUE]

\* _copy_stashes with every path cloned through _copy_paths
_copy_stashes_deep(self) ==
    IF self.immutable
    THEN [stashes |-> [k \in DOMAIN self.stashes |-> _copy_paths(self, self.stashes[k])], aliased |-> FALSE]
    ELSE [stashes |-> self.stashes, aliased |-> TRUE]

\* _copy_stashes: the working store of an operation; aliased says that it
\* is the very dict self.stashes (every write to it is a write to self)
_copy_stashes(self) ==
    IF self.immutable
    THEN [stashes |-> [k \in DOMAIN self.stashes |-> self.stashes[k]], aliased |-> FALSE]
    ELSE [stashes |-> self.stashes, aliased |-> TRUE]

\* _successor that builds a new PathGroup in both modes
_successor_new(self, new_stashes, fresh_hierarchy) ==
    LET stripped == IF Has(new_stashes, "_DROP") THEN Del(new_stashes, "_DROP") ELSE new_stashes
    IN  [same |-> FALSE, self |-> self,
         ret |-> PathGroup(None, Some(stripped), Some(self.hierarchy), None, None,
                           Some(self.immutable), None, None, None, fresh_hierarchy)]

\* _successor: same says that the returned handle is self
_successor(self, new_stashes, fresh_hierarchy) ==
    LET stripped == IF Has(new_stashes, "_DROP") THEN Del(new_stashes, "_DROP") ELSE new_stashes
    IN  IF ~self.immutable
        THEN [same |-> TRUE, self |-> [self EXCEPT !.stashes = stripped], ret |-> [self EXCEPT !.stashes = stripped]]
        ELSE [same |-> FALSE, self |-> self,
              ret |-> PathGroup(None, Some(stripped), Some(self.hierarchy), None, None,
                                Some(self.immutable), None, None, None, fresh_hierarchy)]

\* a stash element that is not a Path object (merge can store the list [p]
\* as an element; it is written -p): reading an attribute of it raises
Bad(p) == p < 0

\* filter_func(p) raises
CallRaises(f, p) == Bad(p) /\ f.kind \in {"addr_eq", "addr_ne", "addr_in"}

RECURSIVE FilterLoop(_, _, _, _)
\* the loop of _filter_paths putting each matching path before the earlier ones
FilterLoop_front(filter_func, paths, match, nomatch) ==
    IF paths = <<>> THEN [raised |-> FALSE, match |-> match, nomatch |-> nomatch]
    ELSE IF filter_func = None
         THEN FilterLoop(filter_func, Tail(paths), <<Head(paths)>> \o match, nomatch)
         ELSE LET f == OrDefault(filter_func, Const(TRUE))
              IN  IF CallRaises(f, Head(paths))
                  THEN [raised |-> TRUE, match |-> match, nomatch |-> nomatch]
                  ELSE IF Call(f, Head(paths))
                       THEN FilterLoop(filter_func, Tail(paths), <<Head(paths)>> \o match, nomatch)
                       ELSE FilterLoop(filter_func, Tail(paths), match, Append(nomatch, Head(paths)))

\* the loop of _filter_paths over paths: [raised, match, nomatch]
FilterLoop(filter_func, paths, match, nomatch) ==
    IF paths = <<>> THEN [raised |-> FALSE, match |-> match, nomatch |-> nomatch]
    ELSE IF filter_func = None
         THEN FilterLoop(filter_func, Tail(paths), Append(match, Head(paths)), nomatch)
         ELSE LET f == OrDefault(filter_func, Const(TRUE))
              IN  IF CallRaises(f, Head(paths))
                  THEN [raised |-> TRUE, match |-> match, nomatch |-> nomatch]
                  ELSE IF Call(f, Head(paths))
                       THEN FilterLoop(filter_func, Tail(paths), Append(match, Head(paths)), nomatch)
                       ELSE FilterLoop(filter_func, Tail(paths), match, Append(nomatch, Head(paths)))

\* _filter_paths: the matching paths and the non-matching paths, in order
_filter_paths(filter_func, paths) == FilterLoop(filter_func, paths, <<>>, <<>>)

\* the outcome of the body of an operation: status is "ok", "raise" (an
\* exception leaves the operation) or "hang" (the operation does not
\* return); store is the working store when the body ended; notes are the
\* calls made to PathHierarchy.unreachable, as <<hierarchy, path>>
Work(status, store, aliased, notes) ==
    [status |-> status, store |-> store, aliased |-> aliased, notes |-> notes]

\* _move leaving the paths it does not move where they were and the
\* destination as it was
_move_none(stashes, filter_func, from_stash, to_stash) ==
    IF ~Has(stashes, from_stash) THEN [raised |-> TRUE, stashes |-> stashes]
    ELSE LET f == _filter_paths(filter_func, stashes[from_stash])
             s1 == IF Has(stashes, to_stash) THEN stashes ELSE Put(stashes, to_stash, <<>>)
         IN  IF f.raised THEN [raised |-> TRUE, stashes |-> stashes]
             ELSE [raised |-> FALSE, stashes |-> Put(s1, from_stash, f.nomatch)]

\* _move: [raised, stashes]
_move(stashes, filter_func, from_stash, to_stash) ==
    IF ~Has(stashes, from_stash) THEN [raised |-> TRUE, stashes |-> stashes]
    ELSE LET f == _filter_paths(filter_func, stashes[from_stash])
             s1 == IF Has(stashes, to_stash) THEN stashes ELSE Put(stashes, to_stash, <<>>)
             s2 == Put(s1, to_stash, s1[to_stash] \o f.match)
         IN  IF f.raised THEN [raised |-> TRUE, stashes |-> stashes]
             ELSE [raised |-> FALSE, stashes |-> Put(s2, from_stash, f.nomatch)]

\* what a public operation did: self is the handle it was called on, after
\* the call; ret the handle it returned; same says that ret is self; nh
\* counts the PathHierarchy objects that exist
Finish(self, w, nh) ==
    LET s1 == IF w.aliased THEN [self EXCEPT !.stashes = w.store] ELSE self
    IN  IF w.status = "ok"
        THEN LET r == _successor(s1, w.store, nh + 1)
             IN  [status |-> "ok", same |-> r.same,
                  self |-> IF w.aliased THEN [r.self EXCEPT !.stashes = r.ret.stashes] ELSE r.self,
                  ret |-> r.ret, notes |-> w.notes, rounds |-> 0,
                  nh |-> IF r.ret.hierarchy > nh THEN nh + 1 ELSE nh]
        ELSE [status |-> w.status, same |-> TRUE, self |-> s1, ret |-> s1,
              notes |-> w.notes, rounds |-> 0, nh |-> nh]

(***************************************************************************)
(* _one_step                                                               *)
(***************************************************************************)
\* the veritesting branch for path a: [raised, store, successors]
VeritestingBranch(st, a) ==
    LET pg0 == SSE(a).final_path_group
        m1 == _move(pg0, None, "deviated", "active")
        m2 == _move(m1.stashes, None, "successful", "active")
        pg3 == [m2.stashes EXCEPT !["active"] = <<>>]
        merged == [s \in (DOMAIN st) \cup (DOMAIN pg3) |->
                      (IF Has(st, s) THEN st[s] ELSE <<>>) \o (IF Has(pg3, s) THEN pg3[s] ELSE <<>>)]
    IN  IF m1.raised \/ m2.raised
        THEN [raised |-> TRUE, store |-> st, successors |-> <<>>]
        ELSE [raised |-> FALSE, store |-> merged, successors |-> m2.stashes["active"]]

\* the errored branch notifying the hierarchy of unreachable paths too
ErroredBranch_notify(self, st, a) ==
    IF ~Has(st, IF error(a) = "unreachable" THEN "pruned" ELSE "errored")
    THEN [raised |-> TRUE, store |-> st, notes |-> <<<<self.hierarchy, a>>>>]
    ELSE [raised |-> FALSE, notes |-> <<<<self.hierarchy, a>>>>,
          store |-> IF error(a) = "unreachable" THEN Put(st, "pruned", Append(st["pruned"], a))
                    ELSE Put(st, "errored", Append(st["errored"], a))]

\* the normal branch for an errored path: [raised, store, notes]
ErroredBranch(self, st, a) ==
    IF error(a) = "unreachable"
    THEN IF Has(st, "pruned")
         THEN [raised |-> FALSE, store |-> Put(st, "pruned", Append(st["pruned"], a)), notes |-> <<>>]
         ELSE [raised |-> TRUE, store |-> st, notes |-> <<>>]
    ELSE IF Has(st, "errored")
         THEN [raised |-> FALSE, store |-> Put(st, "errored", Append(st["errored"], a)),
               notes |-> <<<<self.hierarchy, a>>>>]
         ELSE [raised |-> TRUE, store |-> st, notes |-> <<<<self.hierarchy, a>>>>]

\* the normal branch for a path that is not errored: [raised, store, successors]
SuccessorsBranch(self, st, a, successor_func) ==
    IF raises(a) THEN [raised |-> TRUE, store |-> st, successors |-> <<>>]
    ELSE IF successor_func # None
         THEN [raised |-> FALSE, store |-> st,
               successors |-> CallSuccessorFunc(OrDefault(successor_func, "None"), a)]
         ELSE LET s1 == IF self.save_unconstrained
                        THEN Put(st, "unconstrained",
                                 (IF Has(st, "unconstrained") THEN st["unconstrained"] ELSE <<>>)
                                   \o unconstrained_successors(a))
                        ELSE st
                  s2 == IF self.save_unsat
                        THEN Put(s1, "unsat",
                                 (IF Has(s1, "unsat") THEN s1["unsat"] ELSE <<>>) \o unsat_successors(a))
                        ELSE s1
              IN  [raised |-> FALSE, store |-> s2, successors |-> successors(a)]

\* the end of the loop body that leaves a path without successors in the
\* next generation instead of deadended
Route_keep(b, a) ==
    IF b.raised \/ b.has_stashed
    THEN [raised |-> b.raised, store |-> b.store, new_active |-> <<>>, notes |-> b.notes]
    ELSE [raised |-> FALSE, store |-> b.store, notes |-> b.notes,
          new_active |-> IF Len(b.successors) = 0 THEN <<a>> ELSE b.successors]

\* the end of the loop body putting a path without successors in front of
\* the paths deadended holds
Route_front(b, a) ==
    IF b.raised \/ b.has_stashed
    THEN [raised |-> b.raised, store |-> b.store, new_active |-> <<>>, notes |-> b.notes]
    ELSE IF Len(b.successors) = 0
         THEN IF Has(b.store, "deadended")
              THEN [raised |-> FALSE, new_active |-> <<>>, notes |-> b.notes,
                    store |-> Put(b.store, "deadended", <<a>> \o b.store["deadended"])]
              ELSE [raised |-> TRUE, store |-> b.store, new_active |-> <<>>, notes |-> b.notes]
         ELSE [raised |-> FALSE, store |-> b.store, new_active |-> b.successors, notes |-> b.notes]

\* the end of the loop body (if not has_stashed: ...), b the outcome of the
\* branch taken for path a
Route(b, a) ==
    IF b.raised \/ b.has_stashed
    THEN [raised |-> b.raised, store |-> b.store, new_active |-> <<>>, notes |-> b.notes]
    ELSE IF Len(b.successors) = 0
         THEN IF Has(b.store, "deadended")
              THEN [raised |-> FALSE, new_active |-> <<>>, notes |-> b.notes,
                    store |-> Put(b.store, "deadended", Append(b.store["deadended"], a))]
              ELSE [raised |-> TRUE, store |-> b.store, new_active |-> <<>>, notes |-> b.notes]
         ELSE [raised |-> FALSE, store |-> b.store, new_active |-> b.successors, notes |-> b.notes]

\* the body of the loop for path a: [raised, store, new_active, notes]
ProcessPath(self, st, a, successor_func, check_func) ==
    LET veritesting_worked == self.veritesting /\ ~Bad(a) /\ SSE(a).result
        is_errored == \/ check_func # None /\ Call(OrDefault(check_func, Const(FALSE)), a)
                      \/ check_func = None /\ errored(a)
        v == VeritestingBranch(st, a)
        e == ErroredBranch(self, st, a)
        n == SuccessorsBranch(self, st, a, successor_func)
        b == IF veritesting_worked
             THEN [raised |-> v.raised, store |-> v.store, successors |-> v.successors,
                   has_stashed |-> FALSE, notes |-> <<>>]
             ELSE IF is_errored
                  THEN [raised |-> e.raised, store |-> e.store, successors |-> <<>>,
                        has_stashed |-> TRUE, notes |-> e.notes]
                  ELSE [raised |-> n.raised, store |-> n.store, successors |-> n.successors,
                        has_stashed |-> FALSE, notes |-> <<>>]
    IN  IF Bad(a) THEN [raised |-> TRUE, store |-> st, new_active |-> <<>>, notes |-> <<>>]
        ELSE Route(b, a)

\* the for loop over self.stashes[stash]: position i, working store st.
\* When the working store is self.stashes itself, the list the loop walks
\* is the list the body appends to.
RECURSIVE OneStepLoop(_, _, _, _, _, _, _, _, _)
\* the exception handler ending the loop at a failure that resilience squashes
AfterPath_break(self, aliased, stash_name, successor_func, check_func, i, new_active, notes, r) ==
    IF r.raised
    THEN IF self.resilience
         THEN Work("ok", Put(r.store, stash_name, new_active), aliased, notes \o r.notes)
         ELSE Work("raise", r.store, aliased, notes \o r.notes)
    ELSE OneStepLoop(self, aliased, stash_name, successor_func, check_func, i + 1,
                     r.store, new_active \o r.new_active, notes \o r.notes)

\* after the body has run for the path at position i, with outcome r
AfterPath(self, aliased, stash_name, successor_func, check_func, i, new_active, notes, r) ==
    IF r.raised /\ ~self.resilience
    THEN Work("raise", r.store, aliased, notes \o r.notes)
    ELSE OneStepLoop(self, aliased, stash_name, successor_func, check_func, i + 1,
                     r.store, new_active \o r.new_active, notes \o r.notes)

OneStepLoop(self, aliased, stash_name, successor_func, check_func, i, st, new_active, notes) ==
    LET walked == IF aliased THEN st[stash_name] ELSE self.stashes[stash_name]
    IN  IF i > Len(walked) THEN Work("ok", Put(st, stash_name, new_active), aliased, notes)
        ELSE IF i > MaxIter THEN Work("hang", st, aliased, notes)
        ELSE CHOOSE w \in {AfterPath(self, aliased, stash_name, successor_func, check_func, i,
                                     new_active, notes, r) :
                             r \in {ProcessPath(self, st, walked[i], successor_func, check_func)}} : TRUE

\* _one_step working on a store of empty stashes instead of a copy
_one_step_fresh(self, stash_name, successor_func, check_func, nh) ==
    LET name == OrDefault(stash_name, "active")
        c == _copy_stashes(self)
        fresh == [k \in DOMAIN c.stashes |-> <<>>]
    IN  IF ~Has(self.stashes, name) THEN Finish(self, Work("raise", c.stashes, c.aliased, <<>>), nh)
        ELSE Finish(self, OneStepLoop(self, c.aliased, name, successor_func, check_func, 1,
                                      fresh, <<>>, <<>>), nh)

_one_step(self, stash_name, successor_func, check_func, nh) ==
    LET name == OrDefault(stash_name, "active")
        c == _copy_stashes(self)
    IN  IF ~Has(self.stashes, name) THEN Finish(self, Work("raise", c.stashes, c.aliased, <<>>), nh)
        ELSE Finish(self, OneStepLoop(self, c.aliased, name, successor_func, check_func, 1,
                                      c.stashes, <<>>, <<>>), nh)

(***************************************************************************)
(* Interface                                                               *)
(***************************************************************************)
\* a caller's path_func: "copy" returns the Path p.copy(), "pair" the list
\* [p, p.copy()], "none" returns None
RECURSIVE ApplyPathFunc(_, _, _)
ApplyPathFunc(path_func, paths, new_new_paths) ==
    IF paths = <<>> THEN [raised |-> FALSE, paths |-> new_new_paths]
    ELSE LET q == Head(paths)
         IN  IF path_func # "none" /\ Bad(q) THEN [raised |-> TRUE, paths |-> new_new_paths]
             ELSE ApplyPathFunc(path_func, Tail(paths),
                                new_new_paths \o (CASE path_func = "copy" -> <<copy(q)>>
                                                    [] path_func = "pair" -> <<q, copy(q)>>
                                                    [] OTHER -> <<q>>))

\* a caller's stash_func and stash_ranker: the list reversed
Reversed(paths) == [i \in 1..Len(paths) |-> paths[Len(paths) + 1 - i]]

apply(self, path_func, stash_func, stash_name, nh) ==
    LET name == OrDefault(stash_name, "active")
        c == _copy_stashes(self)
        a == IF path_func # None
             THEN ApplyPathFunc(OrDefault(path_func, "none"), c.stashes[name], <<>>)
             ELSE [raised |-> FALSE, paths |-> c.stashes[name]]
        new_paths == IF stash_func # None THEN Reversed(a.paths) ELSE a.paths
    IN  IF ~Has(c.stashes, name) \/ a.raised
        THEN Finish(self, Work("raise", c.stashes, c.aliased, <<>>), nh)
        ELSE Finish(self, Work("ok", Put(c.stashes, name, new_paths), c.aliased, <<>>), nh)

\* sorted(old_paths, key=path_ranker) for the caller's key p.addr: a stable
\* ascending sort
RECURSIVE InsertByAddr(_, _)
InsertByAddr(sorted, q) ==
    IF sorted = <<>> THEN <<q>>
    ELSE IF addr(sorted[Len(sorted)]) <= addr(q) THEN Append(sorted, q)
         ELSE Append(InsertByAddr(SubSeq(sorted, 1, Len(sorted) - 1), q), sorted[Len(sorted)])

RECURSIVE SortedByAddr(_, _)
SortedByAddr(paths, sorted) ==
    IF paths = <<>> THEN sorted
    ELSE SortedByAddr(Tail(paths), InsertByAddr(sorted, Head(paths)))

\* limit = 8 if limit is None
DefaultLimit == 8

\* the caller's stash_splitter: the paths at the addresses 1 and 2, the rest
SplitterAddrs == {1, 2}

split(self, stash_splitter, stash_ranker, path_ranker, limit, from_stash, to_stash, nh) ==
    LET lim == OrDefault(limit, DefaultLimit)
        from == OrDefault(from_stash, "active")
        to == OrDefault(to_stash, "stashed")
        c == _copy_stashes(self)
        new_stashes == c.stashes
        old_paths == new_stashes[from]
        reads_addr == stash_splitter # None \/ (stash_ranker = None /\ path_ranker # None)
        f == _filter_paths(Some(AddrIn(SplitterAddrs)), old_paths)
        ranked_paths == IF stash_ranker # None THEN Reversed(old_paths)
                        ELSE IF path_ranker # None THEN SortedByAddr(old_paths, <<>>)
                        ELSE old_paths
        keep == IF stash_splitter # None THEN f.match ELSE Take(ranked_paths, lim)
        split_off == IF stash_splitter # None THEN f.nomatch ELSE Drop(ranked_paths, lim)
        s1 == Put(new_stashes, from, keep)
    IN  IF ~Has(new_stashes, from) THEN Finish(self, Work("raise", new_stashes, c.aliased, <<>>), nh)
        ELSE IF reads_addr /\ (\E i \in 1..Len(old_paths) : Bad(old_paths[i]))
        THEN Finish(self, Work("raise", new_stashes, c.aliased, <<>>), nh)
        ELSE IF Has(s1, to)
        THEN Finish(self, Work("ok", Put(s1, to, split_off), c.aliased, <<>>), nh)
        ELSE Finish(self, Work("raise", s1, c.aliased, <<>>), nh)

\* the loop of prune over to_prune: [raised, store, new_active, notes]
RECURSIVE PruneLoop(_, _, _, _, _, _)
PruneLoop(self, to_prune, to_stash, st, new_active, notes) ==
    IF to_prune = <<>> THEN [raised |-> FALSE, store |-> st, new_active |-> new_active, notes |-> notes]
    ELSE LET q == Head(to_prune)
             s1 == IF Has(st, to_stash) THEN st ELSE Put(st, to_stash, <<>>)
         IN  IF Bad(q) THEN [raised |-> TRUE, store |-> st, new_active |-> new_active, notes |-> notes]
             ELSE IF errored(q) \/ ~satisfiable(q)
                  THEN PruneLoop(self, Tail(to_prune), to_stash,
                                 Put(s1, to_stash, Append(s1[to_stash], q)), new_active,
                                 Append(notes, <<self.hierarchy, q>>))
                  ELSE PruneLoop(self, Tail(to_prune), to_stash, st, Append(new_active, q), notes)

prune(self, filter_func, from_stash, to_stash, nh) ==
    LET to == OrDefault(to_stash, "pruned")
        from == OrDefault(from_stash, "active")
        f == _filter_paths(filter_func, self.stashes[from])
        c == _copy_stashes(self)
        r == PruneLoop(self, f.match, to, c.stashes, f.nomatch, <<>>)
    IN  IF ~Has(self.stashes, from) THEN Finish(self, Work("raise", self.stashes, TRUE, <<>>), nh)
        ELSE IF f.raised THEN Finish(self, Work("raise", self.stashes, TRUE, <<>>), nh)
        ELSE IF r.raised THEN Finish(self, Work("raise", r.store, c.aliased, r.notes), nh)
        ELSE Finish(self, Work("ok", Put(r.store, from, r.new_active), c.aliased, r.notes), nh)

stash(self, filter_func, from_stash, to_stash, nh) ==
    LET to == OrDefault(to_stash, "stashed")
        from == OrDefault(from_stash, "active")
        c == _copy_stashes(self)
        m == _move(c.stashes, filter_func, from, to)
    IN  Finish(self, Work(IF m.raised THEN "raise" ELSE "ok", m.stashes, c.aliased, <<>>), nh)

drop(self, filter_func, stash_name, nh) ==
    LET name == OrDefault(stash_name, "active")
        c == _copy_stashes(self)
        f == _filter_paths(filter_func, c.stashes[name])
    IN  IF ~Has(c.stashes, name) THEN Finish(self, Work("ok", c.stashes, c.aliased, <<>>), nh)
        ELSE IF f.raised THEN Finish(self, Work("raise", c.stashes, c.aliased, <<>>), nh)
        ELSE Finish(self, Work("ok", Put(c.stashes, name, f.nomatch), c.aliased, <<>>), nh)

\* unstash walks new_stashes.keys(); after from_stash has got its default
\* the only key that passes the three tests is from_stash itself
unstash(self, filter_func, to_stash, from_stash, except_stash, nh) ==
    LET to == OrDefault(to_stash, "active")
        from == OrDefault(from_stash, "stashed")
        c == _copy_stashes(self)
        walked == {k \in DOMAIN c.stashes :
                      ~(k = to) /\ ~(except_stash # None /\ Some(k) = except_stash) /\ ~(k # from)}
        m == _move(c.stashes, filter_func, from, to)
    IN  IF walked = {} THEN Finish(self, Work("ok", c.stashes, c.aliased, <<>>), nh)
        ELSE Finish(self, Work(IF m.raised THEN "raise" ELSE "ok", m.stashes, c.aliased, <<>>), nh)

\* Path.merge: the merged path is a new object at the address of g[0];
\* states of these paths cannot be merged (SimMergeError)
MergeStride == 200

Unmergeable == {6}

merge_fails(g) == \E i \in 1..Len(g) : Base(g[i]) \in Unmergeable

\* the while loop of merge: [raised, merge_groups, not_to_merge]
RECURSIVE MergeGroups(_, _, _)
MergeGroups(to_merge, merge_groups, not_to_merge) ==
    IF Len(to_merge) = 0
    THEN [raised |-> FALSE, merge_groups |-> merge_groups, not_to_merge |-> not_to_merge]
    ELSE IF \E i \in 1..Len(to_merge) : Bad(to_merge[i])
         THEN [raised |-> TRUE, merge_groups |-> merge_groups, not_to_merge |-> not_to_merge]
         ELSE CHOOSE w \in {MergeGroups(f.nomatch, Append(merge_groups, f.match),
                                         \* not_to_merge.append(g): the list g becomes an element
                                         IF Len(f.match) = 1 THEN Append(not_to_merge, 0 - f.match[1])
                                         ELSE not_to_merge) :
                              f \in {_filter_paths(Some(AddrIs(addr(to_merge[1]))), to_merge)}} : TRUE

RECURSIVE MergeLoop(_, _, _)
\* the for loop of merge discarding a group whose merge fails
MergeLoop_discard(merge_func, merge_groups, not_to_merge) ==
    IF merge_groups = <<>> THEN not_to_merge
    ELSE LET g == Head(merge_groups)
         IN  MergeLoop(merge_func, Tail(merge_groups),
                       IF merge_func # None THEN Append(not_to_merge, g[1])
                       ELSE IF merge_fails(g) THEN not_to_merge
                       ELSE Append(not_to_merge, g[1] + MergeStride))

\* the for loop of merge over merge_groups; a caller's merge_func returns
\* its first argument
MergeLoop(merge_func, merge_groups, not_to_merge) ==
    IF merge_groups = <<>> THEN not_to_merge
    ELSE LET g == Head(merge_groups)
         IN  MergeLoop(merge_func, Tail(merge_groups),
                       IF merge_func # None THEN Append(not_to_merge, g[1])
                       ELSE IF merge_fails(g) THEN not_to_merge \o g
                       ELSE Append(not_to_merge, g[1] + MergeStride))

merge(self, merge_func, stash_name, nh) ==
    LET name == OrDefault(stash_name, "active")
        m == MergeGroups(self.stashes[name], <<>>, <<>>)
        not_to_merge == MergeLoop(merge_func, m.merge_groups, m.not_to_merge)
        c == _copy_stashes(self)
    IN  IF ~Has(self.stashes, name) THEN Finish(self, Work("raise", self.stashes, TRUE, <<>>), nh)
        ELSE IF m.raised THEN Finish(self, Work("raise", self.stashes, TRUE, <<>>), nh)
        ELSE Finish(self, Work("ok", Put(c.stashes, name, not_to_merge), c.aliased, <<>>), nh)

(***************************************************************************)
(* step and explore                                                        *)
(***************************************************************************)
\* _condition_to_lambda: a condition is None, an integer ("int"), a
\* collection of addresses ("set") or a callable ("callable")
_condition_to_lambda(condition, default) ==
    IF condition = None THEN Const(default)
    ELSE LET cnd == OrDefault(condition, Const(default))
         IN  CASE cnd.tag = "int" -> AddrIn({cnd.v})
               [] cnd.tag = "set" -> AddrIn(cnd.v)
               [] OTHER -> cnd.v

\* explore_step_func(pg): pg.stash(find, ...).stash(avoid, ...)
ExploreSecondStash(hook, a) ==
    IF a.status # "ok" THEN a
    ELSE CHOOSE w \in {[b EXCEPT !.self = IF a.same THEN b.self ELSE a.self,
                                 !.same = IF b.status = "ok" THEN a.same /\ b.same ELSE TRUE] :
                         b \in {stash(a.ret, Some(hook.avoid), hook.stash, Some(hook.avoid_stash), a.nh)}} : TRUE

\* explore_step_func(pg) making the avoid move before the find move
ExploreStepFunc_avoid_first(hook, pg, nh) ==
    CHOOSE w \in {ExploreSecondStash([hook EXCEPT !.avoid = hook.find, !.avoid_stash = hook.found_stash], a) :
                    a \in {stash(pg, Some(hook.avoid), hook.stash, Some(hook.avoid_stash), nh)}} : TRUE

ExploreStepFunc(hook, pg, nh) ==
    CHOOSE w \in {ExploreSecondStash(hook, a) :
                    a \in {stash(pg, Some(hook.find), hook.stash, Some(hook.found_stash), nh)}} : TRUE

\* until_func(pg)
UntilFunc(until, pg) == Len(pg.stashes[until.found_stash]) >= until.cur_found + until.num_find

\* n when only until is given
DefaultUntilN == 100000

\* the for loop of step: round i of n; self is the handle step was called
\* on, pg the handle the loop holds (same: they are one object)
RECURSIVE StepLoop(_, _, _, _, _, _, _, _, _, _, _, _)
\* after step_func has run in round i, with outcome h (r: the round's)
AfterStepFunc(self, same, i, n, step_func, stash_name, successor_func, until, check_func, notes, r, h) ==
    LET self1 == IF same THEN r.self ELSE self
        self2 == IF same /\ r.same THEN h.self ELSE self1
        pg2 == h.ret
        same2 == same /\ r.same /\ h.same
    IN  IF h.status # "ok"
        THEN [status |-> h.status, same |-> TRUE, self |-> self2, ret |-> self2,
              notes |-> notes \o r.notes, rounds |-> i + 1, nh |-> h.nh]
        ELSE IF Len(pg2.stashes[stash_name]) = 0
                  \/ (until # None /\ UntilFunc(OrDefault(until, [found_stash |-> "found"]), pg2))
        THEN [status |-> "ok", same |-> same2, self |-> self2, ret |-> pg2,
              notes |-> notes \o r.notes, rounds |-> i + 1, nh |-> h.nh]
        ELSE StepLoop(self2, pg2, same2, i + 1, n, step_func, stash_name, successor_func, until,
                      check_func, notes \o r.notes, h.nh)

\* after _one_step has run in round i, with outcome r
AfterOneStep(self, same, i, n, step_func, stash_name, successor_func, until, check_func, notes, r) ==
    IF r.status # "ok"
    THEN [status |-> r.status, same |-> TRUE, self |-> IF same THEN r.self ELSE self,
          ret |-> IF same THEN r.self ELSE self, notes |-> notes \o r.notes, rounds |-> i, nh |-> r.nh]
    ELSE CHOOSE w \in {AfterStepFunc(self, same, i, n, step_func, stash_name, successor_func, until,
                                     check_func, notes, r, h) :
                         h \in {IF step_func # None
                                THEN ExploreStepFunc(OrDefault(step_func, [find |-> Const(FALSE)]), r.ret, r.nh)
                                ELSE [r EXCEPT !.notes = <<>>]}} : TRUE

\* the for loop of step running one round more than n
StepLoop_extra(self, pg, same, i, n, step_func, stash_name, successor_func, until, check_func, notes, nh) ==
    IF i > n
    THEN [status |-> "ok", same |-> same, self |-> self, ret |-> pg, notes |-> notes,
          rounds |-> i, nh |-> nh]
    ELSE CHOOSE w \in {AfterOneStep(self, same, i, n, step_func, stash_name, successor_func, until,
                                    check_func, notes, r) :
                         r \in {_one_step(pg, Some(stash_name), successor_func, check_func, nh)}} : TRUE

\* the for loop of step: round i of n; self is the handle step was called
\* on, pg the handle the loop holds (same: they are one object)
StepLoop(self, pg, same, i, n, step_func, stash_name, successor_func, until, check_func, notes, nh) ==
    IF i >= n
    THEN [status |-> "ok", same |-> same, self |-> self, ret |-> pg, notes |-> notes,
          rounds |-> i, nh |-> nh]
    ELSE CHOOSE w \in {AfterOneStep(self, same, i, n, step_func, stash_name, successor_func, until,
                                    check_func, notes, r) :
                         r \in {_one_step(pg, Some(stash_name), successor_func, check_func, nh)}} : TRUE

step(self, n, step_func, stash_name, successor_func, until, check_func, nh) ==
    LET name == OrDefault(stash_name, "active")
        rounds == IF n # None THEN OrDefault(n, 1) ELSE IF until = None THEN 1 ELSE DefaultUntilN
    IN  StepLoop(self, self, TRUE, 0, rounds, step_func, name, successor_func, until, check_func,
                 <<>>, nh)

explore(self, stash_name, n, find, avoid, num_find, found_stash, avoid_stash, nh) ==
    LET found == OrDefault(found_stash, "found")
        avoided == OrDefault(avoid_stash, "avoid")
        cur_found == IF Has(self.stashes, found) THEN Len(self.stashes[found]) ELSE 0
        explore_step_func == [find |-> _condition_to_lambda(find, FALSE),
                              avoid |-> _condition_to_lambda(avoid, FALSE),
                              stash |-> stash_name, found_stash |-> found, avoid_stash |-> avoided]
        until_func == [found_stash |-> found, cur_found |-> cur_found,
                       num_find |-> OrDefault(num_find, 1)]
    IN  step(self, n, Some(explore_step_func), stash_name, None, Some(until_func), None, nh)

\* __getattr__(k): reading pg.<k>; nothing is written
__getattr__(self, k, nh) ==
    [status |-> IF Has(self.stashes, k) THEN "ok" ELSE "raise", same |-> TRUE, self |-> self,
     ret |-> self, notes |-> <<>>, rounds |-> 0, nh |-> nh]

\* copy(): a new handle on a copy of the stash store
copy_group(self, nh) ==
    PathGroup(None, Some([k \in DOMAIN self.stashes |-> self.stashes[k]]), Some(self.hierarchy),
              None, None, Some(self.immutable), None, None, None, nh + 1)

(***************************************************************************)
(* The driver: a program that constructs a PathGroup and calls its public  *)
(* operations on the handles it holds.                                     *)
(*   pgs   the handles (PathGroup objects) created so far                  *)
(*   hier  the PathHierarchy objects: for each, the paths it was told are  *)
(*         unreachable, in call order                                      *)
(*   last  the latest call: the operation, its arguments, the handle it    *)
(*         was called on (h) as it was before the call (pre), how the call *)
(*         ended (status), the handle returned (ret, 0 if none), the       *)
(*         notifications made (notes), the rounds a step loop completed    *)
(*   nops  the number of calls made                                        *)
(***************************************************************************)
RECURSIVE NotesOf(_, _)
NotesOf(notes, hierarchy) ==
    IF notes = <<>> THEN <<>>
    ELSE (IF Head(notes)[1] = hierarchy THEN <<Head(notes)[2]>> ELSE <<>>)
           \o NotesOf(Tail(notes), hierarchy)

Commit(op, args, h, res) ==
    /\ pgs' = IF res.same THEN [pgs EXCEPT ![h] = res.self]
              ELSE Append([pgs EXCEPT ![h] = res.self], res.ret)
    /\ hier' = [i \in 1..res.nh |-> (IF i <= Len(hier) THEN hier[i] ELSE <<>>) \o NotesOf(res.notes, i)]
    /\ last' = [op |-> op, args |-> args, h |-> h, pre |-> pgs[h], status |-> res.status,
                ret |-> IF res.status # "ok" THEN 0 ELSE IF res.same THEN h ELSE Len(pgs) + 1,
                notes |-> res.notes, rounds |-> res.rounds]
    /\ nops' = nops + 1

\* the roots: paths a session may be seeded with
Roots == 1..6

\* the lists of at most n consecutive roots
Windows(n) ==
    UNION {{SubSeq([i \in Roots |-> i], a, b) : b \in {a - 1} \cup {x \in Roots : x < a + n}} : a \in Roots}

SeedWindows == Windows(MaxLen)

\* the configurations a session is created with
Configs ==
    [immutable : BOOLEAN, veritesting : BOOLEAN, resilience : BOOLEAN,
     save_unconstrained : BOOLEAN, save_unsat : BOOLEAN]

\* all options off, or all options on
PlainConfigs ==
    {c \in Configs : /\ c.veritesting = c.resilience
                     /\ c.resilience = c.save_unconstrained
                     /\ c.save_unconstrained = c.save_unsat}

NoCall == [op |-> "init", args |-> [stash |-> "active"], h |-> 0, pre |-> [stashes |-> <<>>],
           status |-> "ok", ret |-> 1, notes |-> <<>>, rounds |-> 0]

\* PathGroup(project, active_paths=..., immutable=..., ...)
NewSession(active_paths, c) ==
    PathGroup(Some(active_paths), None, None, Some(c.veritesting), None, Some(c.immutable),
              Some(c.resilience), Some(c.save_unconstrained), Some(c.save_unsat), 1)

Init ==
    /\ \E w \in SeedWindows, c \in PlainConfigs : pgs = <<NewSession(w, c)>>
    /\ hier = <<<<>>>>
    /\ last = NoCall
    /\ nops = 0

\* the driver may call: it has calls left and its latest call returned
MayCall == nops < MaxOps /\ last.status # "hang"

Step(h) ==
    /\ MayCall
    /\ \E n \in {None, Some(0), Some(MaxN)}, check_func \in {None, Some(AddrIs(1))} :
          Commit("step", [n |-> n, stash |-> None, successor_func |-> None, check_func |-> check_func],
                 h, step(pgs[h], n, None, None, None, None, check_func, Len(hier)))

Apply(h) ==
    /\ MayCall
    /\ \E path_func \in {None, Some("copy")}, stash_func \in {None, Some("reversed")} :
          Commit("apply", [path_func |-> path_func, stash_func |-> stash_func, stash |-> None],
                 h, apply(pgs[h], path_func, stash_func, None, Len(hier)))

Split(h) ==
    /\ MayCall
    /\ \E limit \in {None, Some(1)}, to_stash \in {None, Some("found")} :
          Commit("split", [limit |-> limit, from_stash |-> None, to_stash |-> to_stash, ranker |-> "none"],
                 h, split(pgs[h], None, None, None, limit, None, to_stash, Len(hier)))

Prune(h) ==
    /\ MayCall
    /\ Commit("prune", [filter_func |-> None, from_stash |-> None, to_stash |-> None],
              h, prune(pgs[h], None, None, None, Len(hier)))

Stash(h) ==
    /\ MayCall
    /\ \E filter_func \in {None, Some(AddrIs(1))}, to_stash \in {None, Some("_DROP")} :
          Commit("stash", [filter_func |-> filter_func, from_stash |-> None, to_stash |-> to_stash],
                 h, stash(pgs[h], filter_func, None, to_stash, Len(hier)))

Unstash(h) ==
    /\ MayCall
    /\ Commit("unstash", [filter_func |-> None, from_stash |-> None, to_stash |-> None, except_stash |-> None],
              h, unstash(pgs[h], None, None, None, None, Len(hier)))

DropPaths(h) ==
    /\ MayCall
    /\ \E filter_func \in {None, Some(AddrIs(2))} :
          Commit("drop", [filter_func |-> filter_func, stash |-> None],
                 h, drop(pgs[h], filter_func, None, Len(hier)))

Merge(h) ==
    /\ MayCall
    /\ Commit("merge", [merge_func |-> None, stash |-> None],
              h, merge(pgs[h], None, None, Len(hier)))

Explore(h) ==
    /\ MayCall
    /\ \E n \in {None, Some(0)} :
          Commit("explore", [n |-> n, stash |-> None, find |-> Some([tag |-> "int", v |-> 2]),
                             avoid |-> Some([tag |-> "set", v |-> {3}]), num_find |-> None,
                             found_stash |-> None, avoid_stash |-> None],
                 h, explore(pgs[h], None, n, Some([tag |-> "int", v |-> 2]),
                            Some([tag |-> "set", v |-> {3}]), None, None, None, Len(hier)))

Next ==
    \/ \E h \in 1..Len(pgs) : Step(h)
    \/ \E h \in 1..Len(pgs) : Apply(h)
    \/ \E h \in 1..Len(pgs) : Split(h)
    \/ \E h \in 1..Len(pgs) : Prune(h)
    \/ \E h \in 1..Len(pgs) : Stash(h)
    \/ \E h \in 1..Len(pgs) : Unstash(h)
    \/ \E h \in 1..Len(pgs) : DropPaths(h)
    \/ \E h \in 1..Len(pgs) : Merge(h)
    \/ \E h \in 1..Len(pgs) : Explore(h)

Spec == Init /\ [][Next]_vars

(***************************************************************************)
(* One call of step (one round) on a session created with any              *)
(* configuration and a stash store whose classification stashes already    *)
(* hold paths.                                                             *)
(***************************************************************************)
\* the lists of at most n distinct elements of S
RECURSIVE DistinctSeqs(_, _)
DistinctSeqs(S, n) ==
    IF n = 0 THEN {<<>>}
    ELSE LET shorter == DistinctSeqs(S, n - 1)
         IN  shorter \cup UNION {{Append(w, x) : x \in S \ Range(w)} : w \in {v \in shorter : Len(v) = n - 1}}

\* paths a stepped stash is seeded with
Steppable == Roots

\* stashes the step specification steps
StepStashes == {"active", "deadended", "pruned"}

\* PathGroup(project, stashes=..., immutable=..., ...): classification
\* stashes and a stash the round has no business with that already hold
\* paths, and the list w in the stash src
SessionWith(src, w, c) ==
    PathGroup(None,
              Some([[DefaultStashes(None) EXCEPT !.deadended = <<16>>, !.pruned = <<17>>,
                                                 !.errored = <<18>>, !.stashed = <<copy(16)>>]
                      EXCEPT ![src] = w]),
              None, Some(c.veritesting), None, Some(c.immutable),
              Some(c.resilience), Some(c.save_unconstrained), Some(c.save_unsat), 1)

InitStep ==
    /\ \E src \in StepStashes, w \in DistinctSeqs(Steppable, MaxLen), c \in Configs :
          pgs = <<SessionWith(src, w, c)>>
    /\ hier = <<<<>>>>
    /\ last = NoCall
    /\ nops = 0

StepRound ==
    /\ last.op = "init"
    /\ \E stash_name \in StepStashes, check_func \in {None, Some(AddrIn({1, 2}))},
          successor_func \in {None, Some("reversed")} :
          Commit("step", [n |-> None, stash |-> Some(stash_name), successor_func |-> successor_func,
                          check_func |-> check_func],
                 1, step(pgs[1], None, None, Some(stash_name), successor_func, None, check_func, Len(hier)))

NextStep == StepRound

SpecStep == InitStep /\ [][NextStep]_vars

(***************************************************************************)
(* One call of split on a session whose destination stash already holds    *)
(* paths.                                                                  *)
(***************************************************************************)
\* a source stash one path longer than the default limit
LongStash == [i \in 1..(DefaultLimit + 1) |-> i]

InitSplit ==
    /\ \E w \in DistinctSeqs(Roots, MaxSplitLen) \cup {LongStash}, immutable \in BOOLEAN :
          pgs = <<PathGroup(None, Some([DefaultStashes(Some(w)) EXCEPT !.stashed = <<16, 17>>]),
                            None, None, None, Some(immutable), None, None, None, 1)>>
    /\ hier = <<<<>>>>
    /\ last = NoCall
    /\ nops = 0

Rankers == {"none", "stash_splitter", "stash_ranker", "path_ranker"}

SplitCall ==
    /\ last.op = "init"
    /\ \E limit \in {None} \cup {Some(l) : l \in 0..MaxLimit}, to_stash \in {None, Some("found"), Some("active")},
          ranker \in Rankers :
          Commit("split", [limit |-> limit, from_stash |-> None, to_stash |-> to_stash, ranker |-> ranker],
                 1, split(pgs[1], IF ranker = "stash_splitter" THEN Some("by_addr") ELSE None,
                          IF ranker = "stash_ranker" THEN Some("reversed") ELSE None,
                          IF ranker = "path_ranker" THEN Some("addr") ELSE None,
                          limit, None, to_stash, Len(hier)))

NextSplit == SplitCall

SpecSplit == InitSplit /\ [][NextSplit]_vars

(***************************************************************************)
(* Properties.  They read the latest call from last: the handle it was     *)
(* called on (h), that handle as it was before the call (pre) and the      *)
(* handle it returned (ret).                                               *)
(***************************************************************************)
Called == last.op # "init"

Returned == Called /\ last.status = "ok"

\* the call went through _successor at least once: it returned, and a step
\* or explore ran at least one round
Committed == Returned /\ (last.op \in {"step", "explore"} => last.rounds > 0)

\* every path object a stash store holds
AllPaths(st) == UNION {Range(st[k]) : k \in DOMAIN st}

Before == last.pre.stashes

After == pgs[last.ret].stashes

C2_InPlaceSameHandle ==
    (Committed /\ ~last.pre.immutable) =>
        /\ last.ret = last.h
        /\ Len(pgs) = 1
        /\ "_DROP" \notin DOMAIN pgs[last.h].stashes
        /\ (last.op = "stash" /\ last.args.filter_func = None) =>
              /\ pgs[last.h].stashes.active = <<>>
              /\ last.args.to_stash = None =>
                    pgs[last.h].stashes.stashed = Before.stashed \o Before.active

\* C2 witness: an in-place stash() that moved paths
C2_Witness ==
    /\ Committed /\ ~last.pre.immutable /\ last.op = "stash"
    /\ last.ret = last.h
    /\ Before.active # <<>>
    /\ pgs[last.h].stashes # Before

\* C3 as stated: the handle an immutable call returns has the hierarchy
\* and the whole configuration of the handle it was called on.
C3_DerivedKeepsConfiguration ==
    (Committed /\ last.pre.immutable) =>
        /\ pgs[last.ret].hierarchy = last.pre.hierarchy
        /\ pgs[last.ret].immutable = last.pre.immutable
        /\ pgs[last.ret].resilience = last.pre.resilience
        /\ pgs[last.ret].save_unconstrained = last.pre.save_unconstrained
        /\ pgs[last.ret].save_unsat = last.pre.save_unsat
        /\ pgs[last.ret].veritesting = last.pre.veritesting
        /\ pgs[last.ret].veritesting_options = last.pre.veritesting_options

Src == OrDefault(last.args.stash, "active")

Stepped == Before[Src]

\* the call was a step of one round
OneRound == last.op = "step" /\ last.args.n = None

\* the round completed and its store was committed
RoundDone == OneRound /\ last.status = "ok" /\ last.rounds = 1

\* the accelerator produced a result for p
Accelerated(p) == last.pre.veritesting /\ SSE(p).result

\* p is errored: by the caller's check function, or by its own marker
Flagged(p) ==
    IF last.args.check_func = None THEN errored(p)
    ELSE Call(OrDefault(last.args.check_func, Const(FALSE)), p)

\* p reaches the error classification and is errored there
Classified(p) == ~Accelerated(p) /\ Flagged(p)

\* computing the successors of p fails
Fails(p) == ~Accelerated(p) /\ ~Flagged(p) /\ raises(p)

\* the successors the round obtains for p
Produced(p) ==
    IF Accelerated(p)
    THEN LET g == SSE(p).final_path_group
         IN  g.active \o (IF Has(g, "deviated") THEN g.deviated ELSE <<>>)
                      \o (IF Has(g, "successful") THEN g.successful ELSE <<>>)
    ELSE IF last.args.successor_func # None
         THEN LET r == successors(p) IN [i \in 1..Len(r) |-> r[Len(r) + 1 - i]]
         ELSE successors(p)

\* the next generation: the successors of the paths that are neither
\* classified as errored nor failing, in the order of the paths
RECURSIVE NextGeneration(_)
NextGeneration(paths) ==
    IF paths = <<>> THEN <<>>
    ELSE (IF Classified(Head(paths)) \/ Fails(Head(paths)) THEN <<>> ELSE Produced(Head(paths)))
           \o NextGeneration(Tail(paths))

\* what the round adds to deadended: the paths without successors (and,
\* for an accelerated path, the deadended stash of the nested result)
RECURSIVE NewDeadended(_)
NewDeadended(paths) ==
    IF paths = <<>> THEN <<>>
    ELSE LET p == Head(paths)
             g == SSE(p).final_path_group
         IN  (IF Accelerated(p) /\ Has(g, "deadended") THEN g.deadended ELSE <<>>)
               \o (IF ~Classified(p) /\ ~Fails(p) /\ Produced(p) = <<>> THEN <<p>> ELSE <<>>)
               \o NewDeadended(Tail(paths))

Unreachables == SelectSeq(Stepped, LAMBDA p : Classified(p) /\ error(p) = "unreachable")

OtherErrors == SelectSeq(Stepped, LAMBDA p : Classified(p) /\ error(p) # "unreachable")

FlaggedUnreachables == SelectSeq(Stepped, LAMBDA p : Flagged(p) /\ error(p) = "unreachable")

FlaggedOthers == SelectSeq(Stepped, LAMBDA p : Flagged(p) /\ error(p) # "unreachable")

C6_RoundAtomic ==
    (OneRound /\ ~last.pre.resilience /\ last.status = "raise") =>
        pgs[last.h].stashes = Before

\* the stepped stash without the paths that fail
Survivors == SelectSeq(Stepped, LAMBDA p : ~Fails(p))

\* C7: with resilience enabled a step round does not raise; when it
\* completes, no failing path is in any stash, and the store and the
\* notifications are those of the same round run on the same handle with
\* the failing paths taken out of the stepped stash.
C7_ResilienceSkipsFailingPath ==
    (OneRound /\ last.pre.resilience) =>
        /\ last.status # "raise"
        /\ last.status = "ok" =>
              /\ \A i \in 1..Len(Stepped) : Fails(Stepped[i]) => Stepped[i] \notin AllPaths(After)
              /\ LET without == step([last.pre EXCEPT !.stashes[Src] = Survivors], None, None,
                                     last.args.stash, last.args.successor_func, None,
                                     last.args.check_func, Len(hier))
                 IN  /\ without.status = "ok"
                     /\ without.ret.stashes = After
                     /\ without.notes = last.notes

\* C7 witness: a resilient round over a failing path followed by a path
\* that has successors
C7_Witness ==
    /\ RoundDone /\ last.pre.resilience /\ Src = "active"
    /\ Len(Stepped) = 2
    /\ Fails(Stepped[1])
    /\ ~Flagged(Stepped[2]) /\ Produced(Stepped[2]) # <<>>
    /\ After.active = Produced(Stepped[2])

(***************************************************************************)
(* Properties of split.                                                    *)
(***************************************************************************)
FromName == OrDefault(last.args.from_stash, "active")

ToName == OrDefault(last.args.to_stash, "stashed")

\* what the destination stash held before the call
OldDestination == IF Has(Before, ToName) THEN Before[ToName] ELSE <<>>

\* C9 as stated: split into a stash other than the source returns, and
\* the destination then holds what it held before (nothing if it did not
\* exist) followed by the split-off paths.
C9_SplitAppends ==
    (last.op = "split" /\ FromName # ToName) =>
        /\ last.status = "ok"
        /\ Len(After[ToName]) = Len(OldDestination) + Len(Before[FromName]) - Len(After[FromName])
        /\ SubSeq(After[ToName], 1, Len(OldDestination)) = OldDestination

\* C10: a split that returns, with no splitter and no ranker, into a stash
\* other than the source, from a source stash of k paths with limit L (8
\* when none is given): the source stash then holds its first min(k, L)
\* paths in their order, and the destination stash ends with the other
\* k - min(k, L) paths in their order.
C10_SplitSlicesAtLimit ==
    (last.op = "split" /\ last.status = "ok" /\ last.args.ranker = "none" /\ FromName # ToName) =>
        LET k == Len(Before[FromName])
            L == OrDefault(last.args.limit, 8)
            m == IF k < L THEN k ELSE L
            keep == After[FromName]
            dest == After[ToName]
        IN  /\ Len(keep) = m
            /\ \A i \in 1..m : keep[i] = Before[FromName][i]
            /\ Len(dest) >= k - m
            /\ \A j \in 1..(k - m) : dest[Len(dest) - (k - m) + j] = Before[FromName][m + j]

\* C10 witness: 5 paths split with limit 2: 2 kept, 3 split off
C10_Witness ==
    /\ last.op = "split" /\ last.status = "ok" /\ last.args.ranker = "none"
    /\ last.args.limit = Some(2) /\ ToName = "stashed"
    /\ Len(Before.active) = 5
    /\ Len(After.active) = 2
    /\ Len(After.stashed) = 3

(***************************************************************************)
(* One call of merge on a session whose active stash holds paths at        *)
(* several addresses, in any order.                                        *)
(***************************************************************************)
InitMerge ==
    /\ \E w \in DistinctSeqs(Roots, MaxMergeLen), immutable \in BOOLEAN :
          pgs = <<PathGroup(Some(w), None, None, None, None, Some(immutable), None, None, None, 1)>>
    /\ hier = <<<<>>>>
    /\ last = NoCall
    /\ nops = 0

MergeCall ==
    /\ last.op = "init"
    /\ \E merge_func \in {None, Some("first")} :
          Commit("merge", [merge_func |-> merge_func, stash |-> None],
                 1, merge(pgs[1], merge_func, None, Len(hier)))

NextMerge == MergeCall

SpecMerge == InitMerge /\ [][NextMerge]_vars

(***************************************************************************)
(* Properties of merge.                                                    *)
(***************************************************************************)
\* the merged stash, before and after the call
Merged == OrDefault(last.args.stash, "active")

\* the addresses present in the stash before the call
AddrsBefore == {addr(p) : p \in Range(Before[Merged])}

\* the group of the paths at address a, in stash order
Group(a) == SelectSeq(Before[Merged], LAMBDA p : addr(p) = a)

\* how many times x is an element of the list s
Count(x, s) == Cardinality({i \in 1..Len(s) : s[i] = x})

\* the merge of the group at address a fails
GroupFails(a) == last.args.merge_func = None /\ \E p \in Range(Group(a)) : Base(p) \in Unmergeable

\* C11 as stated: after a merge in which every group merge succeeds the
\* stash holds exactly one entry per address that was present, and a group
\* of one member is kept as that original path, exactly once.
C11_OneEntryPerAddress ==
    (last.op = "merge" /\ last.status = "ok" /\ \A a \in AddrsBefore : ~GroupFails(a)) =>
        /\ Len(After[Merged]) = Cardinality(AddrsBefore)
        /\ \A a \in AddrsBefore :
              Len(Group(a)) = 1 => Count(Group(a)[1], After[Merged]) = 1

\* C12: a merge with Path.merge over a stash of paths does not raise; for
\* every group whose merge fails, each original path of the group is in the
\* resulting stash exactly once and no merged path was made for it; for
\* every group whose merge succeeds, its merged path is in the resulting
\* stash exactly once and, when the group has several members, none of its
\* original paths is.
C12_FailedGroupKept ==
    (last.op = "merge" /\ last.args.merge_func = None) =>
        /\ last.status = "ok"
        /\ \A a \in AddrsBefore :
              IF GroupFails(a)
              THEN /\ \A p \in Range(Group(a)) : Count(p, After[Merged]) = 1
                   /\ Count(Group(a)[1] + MergeStride, After[Merged]) = 0
              ELSE /\ Count(Group(a)[1] + MergeStride, After[Merged]) = 1
                   /\ Len(Group(a)) > 1 =>
                         \A p \in Range(Group(a)) : Count(p, After[Merged]) = 0

\* C12 witness: a merge over a group of two that fails and a group of two
\* that succeeds
C12_Witness ==
    /\ last.op = "merge" /\ last.status = "ok" /\ last.args.merge_func = None
    /\ \E a, b \in AddrsBefore :
          /\ GroupFails(a) /\ Len(Group(a)) = 2
          /\ ~GroupFails(b) /\ Len(Group(b)) = 2
          /\ Range(Group(a)) \subseteq Range(After[Merged])
          /\ Group(b)[1] + MergeStride \in Range(After[Merged])

(***************************************************************************)
(* Calls of the path-moving operations (stash, unstash, split, prune) with *)
(* source and destination names given, on a session whose stashed and      *)
(* pruned stashes already hold paths.  An in-place session is called       *)
(* repeatedly; an immutable session once.                                  *)
(***************************************************************************)
InitMoves ==
    /\ \E w \in DistinctSeqs(Roots, MaxLen), immutable \in BOOLEAN :
          pgs = <<PathGroup(None, Some([DefaultStashes(Some(w)) EXCEPT !.stashed = <<16>>, !.pruned = <<17>>]),
                            None, None, None, Some(immutable), None, None, None, 1)>>
    /\ hier = <<<<>>>>
    /\ last = NoCall
    /\ nops = 0

MayMove == MayCall /\ (pgs[1].immutable => nops = 0)

\* destination names the calls pass: the default, a stash that does not
\* exist at first, and the default source
MoveTo == {None, Some("found"), Some("active")}

MoveStash ==
    /\ MayMove
    /\ \E filter_func \in {None, Some(AddrIs(1))}, from_stash \in {None, Some("stashed")}, to_stash \in MoveTo :
          Commit("stash", [filter_func |-> filter_func, from_stash |-> from_stash, to_stash |-> to_stash],
                 1, stash(pgs[1], filter_func, from_stash, to_stash, Len(hier)))

\* unstash, and unstash_all (the filter lambda p: True)
MoveUnstash ==
    /\ MayMove
    /\ \E filter_func \in {None, Some(Const(TRUE))}, to_stash \in {None, Some("found")},
          except_stash \in {None, Some("pruned")} :
          Commit("unstash", [filter_func |-> filter_func, from_stash |-> None, to_stash |-> to_stash,
                             except_stash |-> except_stash],
                 1, unstash(pgs[1], filter_func, to_stash, None, except_stash, Len(hier)))

MoveSplit ==
    /\ MayMove
    /\ \E to_stash \in MoveTo :
          Commit("split", [limit |-> Some(1), from_stash |-> None, to_stash |-> to_stash, ranker |-> "none"],
                 1, split(pgs[1], None, None, None, Some(1), None, to_stash, Len(hier)))

MovePrune ==
    /\ MayMove
    /\ \E filter_func \in {None, Some(AddrIs(1)), Some(AddrIsNot(2))}, to_stash \in MoveTo :
          Commit("prune", [filter_func |-> filter_func, from_stash |-> None, to_stash |-> to_stash],
                 1, prune(pgs[1], filter_func, None, to_stash, Len(hier)))

NextMoves ==
    \/ MoveStash
    \/ MoveUnstash
    \/ MoveSplit
    \/ MovePrune

SpecMoves == InitMoves /\ [][NextMoves]_vars

(***************************************************************************)
(* Properties of the path-moving operations.                               *)
(***************************************************************************)
\* the call was unstash_all with no source stash given
UnstashAll ==
    /\ last.op = "unstash"
    /\ last.args.filter_func = Some(Const(TRUE))
    /\ last.args.from_stash = None

\* the stashes unstash_all is to leave alone: the destination and the
\* excluded stash
KeptStashes == {OrDefault(last.args.to_stash, "active")} \cup last.args.except_stash

\* C13 as stated: after unstash_all with no source stash given, every stash
\* other than the destination and the excluded stash is empty, and every
\* path those stashes held is in the destination stash.
C13_UnstashAllMovesAll ==
    (UnstashAll /\ last.status = "ok") =>
        \A k \in (DOMAIN Before) \ KeptStashes :
            /\ After[k] = <<>>
            /\ Range(Before[k]) \subseteq Range(After[OrDefault(last.args.to_stash, "active")])

(***************************************************************************)
(* One call of an operation that reads a named source stash, the name      *)
(* being that of a stash of the store or of none.                          *)
(***************************************************************************)
\* source names the calls pass: found is not a stash of the store
SourceNames == {"active", "stashed", "found"}

ReadStash ==
    /\ last.op = "init"
    /\ \E name \in SourceNames :
          Commit("stash", [source |-> name, filter_func |-> None, from_stash |-> Some(name), to_stash |-> None],
                 1, stash(pgs[1], None, Some(name), None, Len(hier)))

ReadUnstash ==
    /\ last.op = "init"
    /\ \E name \in SourceNames :
          Commit("unstash", [source |-> name, filter_func |-> None, from_stash |-> Some(name), to_stash |-> None,
                             except_stash |-> None],
                 1, unstash(pgs[1], None, None, Some(name), None, Len(hier)))

ReadSplit ==
    /\ last.op = "init"
    /\ \E name \in SourceNames :
          Commit("split", [source |-> name, limit |-> Some(1), from_stash |-> Some(name), to_stash |-> Some("pruned"),
                           ranker |-> "none"],
                 1, split(pgs[1], None, None, None, Some(1), Some(name), Some("pruned"), Len(hier)))

ReadPrune ==
    /\ last.op = "init"
    /\ \E name \in SourceNames :
          Commit("prune", [source |-> name, filter_func |-> None, from_stash |-> Some(name), to_stash |-> None],
                 1, prune(pgs[1], None, Some(name), None, Len(hier)))

ReadMerge ==
    /\ last.op = "init"
    /\ \E name \in SourceNames :
          Commit("merge", [source |-> name, merge_func |-> None, stash |-> Some(name)],
                 1, merge(pgs[1], None, Some(name), Len(hier)))

ReadStep ==
    /\ last.op = "init"
    /\ \E name \in SourceNames :
          Commit("step", [source |-> name, n |-> None, stash |-> Some(name), successor_func |-> None,
                          check_func |-> None],
                 1, step(pgs[1], None, None, Some(name), None, None, None, Len(hier)))

ReadAttribute ==
    /\ last.op = "init"
    /\ \E name \in SourceNames :
          Commit("getattr", [source |-> name], 1, __getattr__(pgs[1], name, Len(hier)))

NextRead ==
    \/ ReadStash
    \/ ReadUnstash
    \/ ReadSplit
    \/ ReadPrune
    \/ ReadMerge
    \/ ReadStep
    \/ ReadAttribute

SpecRead == InitMoves /\ [][NextRead]_vars

\* C14 as stated: an operation that reads a source stash name that is not
\* in the stash store completes without error.
C14_UnknownStashReadsEmpty ==
    (Called /\ ~Has(Before, last.args.source)) => last.status = "ok"

(***************************************************************************)
(* One call of explore on a session whose deadended stash holds a path and *)
(* whose found stash may already hold one.                                 *)
(***************************************************************************)
InitExplore ==
    /\ \E w \in DistinctSeqs(Roots, MaxLen), immutable \in BOOLEAN, found \in {None, Some(<<18>>)} :
          pgs = <<PathGroup(None,
                            Some(IF found = None THEN [DefaultStashes(Some(w)) EXCEPT !.deadended = <<16>>]
                                 ELSE [DefaultStashes(Some(w)) EXCEPT !.deadended = <<16>>]
                                        @@ [found |-> OrDefault(found, <<>>)]),
                            None, None, None, Some(immutable), None, None, None, 1)>>
    /\ hier = <<<<>>>>
    /\ last = NoCall
    /\ nops = 0

\* the conditions a caller looks for: an address, a set of addresses
FindCondition(tag) == IF tag = "int" THEN [tag |-> "int", v |-> 2] ELSE [tag |-> "set", v |-> {4, 5}]

ExploreCall ==
    /\ last.op = "init"
    /\ \E stash_name \in {None, Some("deadended")}, n \in {None} \cup {Some(k) : k \in 0..MaxN},
          tag \in {"int", "set"}, avoid \in {None, Some([tag |-> "int", v |-> 3])},
          num_find \in {None, Some(2)} :
          Commit("explore", [stash |-> stash_name, n |-> n, find |-> Some(FindCondition(tag)), avoid |-> avoid,
                             num_find |-> num_find, found_stash |-> None, avoid_stash |-> None],
                 1, explore(pgs[1], stash_name, n, Some(FindCondition(tag)), avoid, num_find, None, None,
                            Len(hier)))

NextExplore == ExploreCall

SpecExplore == InitExplore /\ [][NextExplore]_vars

(***************************************************************************)
(* Properties of explore.                                                  *)
(***************************************************************************)
\* the size of the found stash when explore was called
Baseline == IF Has(Before, "found") THEN Len(Before.found) ELSE 0

\* the rounds explore may run
Budget == OrDefault(last.args.n, DefaultUntilN)

\* after its find/avoid moves, store st lets explore stop
Stops(st) ==
    \/ Len(st.found) >= Baseline + OrDefault(last.args.num_find, 1)
    \/ st[OrDefault(last.args.stash, "active")] = <<>>

\* explore called like the latest call, with a budget of r rounds
Shorter(r) ==
    explore(last.pre, last.args.stash, Some(r), last.args.find, last.args.avoid, last.args.num_find,
            last.args.found_stash, last.args.avoid_stash, Len(hier))

\* a call of explore that returned stopped at the first round after which
\* the found stash had grown by num_find beyond the baseline, the source
\* stash was empty or the budget was used up
StopsAtFirst ==
    /\ last.rounds <= Budget
    /\ last.rounds < Budget => (last.rounds > 0 /\ Stops(After))
    /\ \A r \in 1..(last.rounds - 1) :
          /\ Shorter(r).status = "ok"
          /\ Shorter(r).rounds = r
          /\ ~Stops(Shorter(r).ret.stashes)

\* C15 as stated: explore terminates, and when it returns it has stopped
\* at the first round after which the found stash has grown by num_find
\* beyond its size at the call, the source stash is empty or the budget n
\* is used up.
C15_ExploreTerminates ==
    last.op = "explore" =>
        /\ last.status # "hang"
        /\ last.status = "ok" => StopsAtFirst

(***************************************************************************)
(* Completion of a step round.                                             *)
(***************************************************************************)
\* C18 as stated: a step round of any stash of the store, in either mode,
\* comes to an end (it returns or raises), and when it returns each path
\* that was in the stepped stash has been processed once: the hierarchy was
\* notified once for each classified path with an error other than
\* unreachable, in stash order.
C18_RoundCompletes ==
    (OneRound /\ Has(Before, Src)) =>
        /\ last.status # "hang"
        /\ last.status = "ok" =>
              last.notes = [i \in 1..Len(OtherErrors) |-> <<last.pre.hierarchy, OtherErrors[i]>>]

(***************************************************************************)
(* Properties of prune.                                                    *)
(***************************************************************************)
\* the call's filter matches p
Matches(p) ==
    IF last.args.filter_func = None THEN TRUE
    ELSE Call(OrDefault(last.args.filter_func, Const(TRUE)), p)

PruneFrom == OrDefault(last.args.from_stash, "active")

PruneTo == OrDefault(last.args.to_stash, "pruned")

\* the paths of the source stash that match the filter and carry an error
\* or have an unsatisfiable state, in stash order
Routed == SelectSeq(Before[PruneFrom], LAMBDA p : Matches(p) /\ (errored(p) \/ ~satisfiable(p)))

\* what a stash of the store holds, nothing when the name is absent
Held(st, k) == IF Has(st, k) THEN st[k] ELSE <<>>

\* the routing of one prune call: the hierarchy has been notified once for
\* each routed path and for no other, every routed path is in the
\* destination once, and every other path of the source is in the source once
PruneRouting ==
    /\ last.status = "ok"
    /\ last.notes = [i \in 1..Len(Routed) |-> <<last.pre.hierarchy, Routed[i]>>]
    /\ \A p \in Range(Routed) : Count(p, Held(After, PruneTo)) = Count(p, Held(Before, PruneTo)) + 1
    /\ \A p \in Range(Before[PruneFrom]) \ Range(Routed) : Count(p, After[PruneFrom]) = 1

\* prune into a stash other than the source: the destination holds what it
\* held followed by the routed paths, in order
PruneElsewhere ==
    (last.op = "prune" /\ PruneFrom # PruneTo /\ Has(Before, PruneFrom)) =>
        /\ PruneRouting
        /\ Held(After, PruneTo) = Held(Before, PruneTo) \o Routed
        /\ Len(After[PruneFrom]) = Len(Before[PruneFrom]) - Len(Routed)

\* C16: prune puts exactly the paths of the source stash that match the
\* filter and are errored or unsatisfiable into the destination stash,
\* notifying the hierarchy once for each of them and for no other path, and
\* every other path of the source stash remains in the source stash.
C16_PruneRoutesUnsatisfiable ==
    (last.op = "prune" /\ Has(Before, PruneFrom)) => PruneRouting

(***************************************************************************)
(* Conservation of paths by the moving operations.                         *)
(***************************************************************************)
RECURSIVE CountAll(_, _, _)
\* the number of occurrences of p in the stashes named in names
CountAll(p, st, names) ==
    IF names = {} THEN 0
    ELSE LET k == CHOOSE x \in names : TRUE
         IN  Count(p, st[k]) + CountAll(p, st, names \ {k})

\* the number of occurrences of p in the whole store
Occurrences(p, st) == CountAll(p, st, DOMAIN st)

MovingOps == {"stash", "unstash", "split", "prune"}

\* C17: in in-place mode, after a call of stash, unstash, split or prune,
\* every path the store held exactly once before the call is held exactly
\* once, in exactly one stash, after it.
C17_PathsConserved ==
    (last.op \in MovingOps /\ ~last.pre.immutable) =>
        \A p \in AllPaths(Before) :
            Occurrences(p, Before) = 1 => Occurrences(p, pgs[1].stashes) = 1

(***************************************************************************)
(* _filter_paths on its own: a list of paths, repeats allowed, and a       *)
(* filter function.                                                        *)
(***************************************************************************)
MaxFilterLen == 3

\* the paths the filtered lists are made of: two at one address, one at
\* each of two others
FilterPaths == {1, 2, 3, 5}

FilterFuncs == {None, Some(AddrIs(1)), Some(AddrIsNot(2)), Some(AddrIn({1, 3})), Some(Const(FALSE))}

\* the lists over S of length at most n
RECURSIVE Seqs(_, _)
Seqs(S, n) ==
    IF n = 0 THEN {<<>>}
    ELSE Seqs(S, n - 1) \cup UNION {{Append(w, x) : x \in S} : w \in Seqs(S, n - 1)}

InitFilter ==
    /\ pgs = <<PathGroup(None, None, None, None, None, None, None, None, None, 1)>>
    /\ hier = <<<<>>>>
    /\ \E w \in Seqs(FilterPaths, MaxFilterLen) :
          last = [NoCall EXCEPT !.args = [paths |-> w]]
    /\ nops = 0

\* PathGroup._filter_paths(filter_func, paths); ret is the returned tuple
FilterCall ==
    /\ nops = 0
    /\ \E filter_func \in FilterFuncs :
          LET r == _filter_paths(filter_func, last.args.paths)
          IN  last' = [last EXCEPT !.op = "_filter_paths",
                                   !.args = [filter_func |-> filter_func, paths |-> last.args.paths],
                                   !.status = IF r.raised THEN "raise" ELSE "ok",
                                   !.ret = <<r.match, r.nomatch>>]
    /\ nops' = 1
    /\ UNCHANGED <<pgs, hier>>

NextFilter == FilterCall

SpecFilter == InitFilter /\ [][NextFilter]_vars

Filtered == last.op = "_filter_paths" /\ last.status = "ok"

\* C19: _filter_paths returns a stable partition of its list: matched is
\* the sublist of the elements the filter accepts and unmatched the sublist
\* of the others, both in the order of the list, every element counted in
\* exactly one of them as often as in the list, and with no filter every
\* element is matched.
C19_FilterStablePartition ==
    Filtered =>
        LET S == last.args.paths
            matched == last.ret[1]
            unmatched == last.ret[2]
        IN  /\ matched = SelectSeq(S, LAMBDA p : Matches(p))
            /\ unmatched = SelectSeq(S, LAMBDA p : ~Matches(p))
            /\ \A p \in FilterPaths : Count(p, matched) + Count(p, unmatched) = Count(p, S)
            /\ \A p \in FilterPaths : Count(p, matched) = 0 \/ Count(p, unmatched) = 0
            /\ last.args.filter_func = None => (matched = S /\ unmatched = <<>>)

\* C19 witness: a list of two different matching paths around a
\* non-matching one, split without changing their order
C19_Witness ==
    /\ Filtered
    /\ last.args.filter_func # None
    /\ Len(last.ret[1]) = 2 /\ last.ret[1][1] # last.ret[1][2]
    /\ Len(last.ret[2]) = 1
    /\ ~Matches(last.args.paths[2])

(***************************************************************************)
(* A move from one stash to another followed by the move back with the     *)
(* complementary filter.                                                   *)
(***************************************************************************)
\* lambda p: not filter_func(p); no filter matches every path
Complement(filter_func) ==
    IF filter_func = None THEN Some(Const(FALSE))
    ELSE LET f == OrDefault(filter_func, Const(TRUE))
         IN  Some(CASE f.kind = "addr_eq" -> [f EXCEPT !.kind = "addr_ne"]
                    [] f.kind = "addr_ne" -> [f EXCEPT !.kind = "addr_eq"]
                    [] f.kind = "true" -> Const(FALSE)
                    [] f.kind = "false" -> Const(TRUE))

MovedNames == {"active", "stashed", "pruned"}

MovedFilters == {None, Some(AddrIs(1)), Some(AddrIsNot(2)), Some(AddrIs(4)), Some(Const(FALSE))}

\* pg.stash(filter_func=p, from_stash=A, to_stash=B)
MoveThere ==
    /\ MayCall
    /\ last.op \in {"init", "stash_back"}
    /\ last.status = "ok"
    /\ \E filter_func \in MovedFilters, A \in MovedNames, B \in MovedNames :
          /\ A # B
          /\ Commit("stash", [filter_func |-> filter_func, from_stash |-> Some(A), to_stash |-> Some(B)],
                    last.ret, stash(pgs[last.ret], filter_func, Some(A), Some(B), Len(hier)))

\* then, on the group the first call returned,
\* .stash(filter_func=lambda x: not p(x), from_stash=B, to_stash=A);
\* origin is the store before the first call, moved the first call's filter
MoveBack ==
    /\ MayCall
    /\ last.op = "stash"
    /\ last.status = "ok"
    /\ LET filter_func == Complement(last.args.filter_func)
       IN  Commit("stash_back",
                  [filter_func |-> filter_func, from_stash |-> last.args.to_stash,
                   to_stash |-> last.args.from_stash, moved |-> last.args.filter_func,
                   origin |-> last.pre.stashes],
                  last.ret,
                  stash(pgs[last.ret], filter_func, last.args.to_stash, last.args.from_stash, Len(hier)))

NextMoveBack == MoveThere \/ MoveBack

SpecMoveBack == InitMoves /\ [][NextMoveBack]_vars

MovedBack == last.op = "stash_back" /\ last.status = "ok"

\* the stash A the first move took from, the stash B it moved to
StashA == OrDefault(last.args.to_stash, "active")

StashB == OrDefault(last.args.from_stash, "stashed")

\* the first move's filter matches p
Moves(p) ==
    IF last.args.moved = None THEN TRUE
    ELSE Call(OrDefault(last.args.moved, Const(TRUE)), p)

\* the list s holds each path as often as the list t
SameBag(s, t) == \A p \in Range(s) \cup Range(t) : Count(p, s) = Count(p, t)

\* A and B hold, as multisets, what they held before the two moves
Restored ==
    /\ SameBag(After[StashA], last.args.origin[StashA])
    /\ SameBag(After[StashB], last.args.origin[StashB])

\* C20 (as stated): moving the matching paths from A to B and then moving
\* back from B to A with the complementary filter leaves A and B, as
\* multisets, as they were before the two moves.
C20_MoveAndBackIdentity == MovedBack => Restored

\* C20 (as amended): moving the matching paths from A to B and then moving
\* back from B to A with the complementary filter keeps every path of A and
\* B, as often as the two stashes held it, and sorts them: A ends with the
\* non-matching paths of A followed by those of B, B with the matching
\* paths of B followed by those of A, every other stash is as it was; so A
\* and B are as before exactly when A held no matching path and B no
\* non-matching one.
C20_MoveAndBackSorts ==
    MovedBack =>
        LET O == last.args.origin
        IN  /\ After[StashA] = SelectSeq(O[StashA], LAMBDA p : ~Moves(p)) \o SelectSeq(O[StashB], LAMBDA p : ~Moves(p))
            /\ After[StashB] = SelectSeq(O[StashB], LAMBDA p : Moves(p)) \o SelectSeq(O[StashA], LAMBDA p : Moves(p))
            /\ SameBag(After[StashA] \o After[StashB], O[StashA] \o O[StashB])
            /\ \A k \in DOMAIN O \ {StashA, StashB} : After[k] = O[k]
            /\ Restored <=> /\ \A p \in Range(O[StashA]) : ~Moves(p)
                            /\ \A p \in Range(O[StashB]) : Moves(p)

\* C20 witness: A held a matching and a non-matching path, B a
\* non-matching one; after the two moves the matching path is in B and B's
\* path is in A
C20_Witness ==
    /\ MovedBack
    /\ \E p, q \in Range(last.args.origin[StashA]) : Moves(p) /\ ~Moves(q)
    /\ \E p \in Range(last.args.origin[StashB]) : ~Moves(p)
    /\ Len(After[StashA]) = 2
    /\ Len(After[StashB]) = 1
    /\ ~Restored

(***************************************************************************)
(* Properties of the step loop.                                            *)
(***************************************************************************)
\* C21: a step with n = 0, and a step of a stash that is empty, returns a
\* handle whose stash store has the names and the contents of the store of
\* the handle it was called on, and notifies the hierarchy of nothing.
C21_EmptyStepIsNoOp ==
    (last.op = "step" /\ (last.args.n = Some(0) \/ Stepped = <<>>)) =>
        /\ last.status = "ok"
        /\ After = Before
        /\ last.notes = <<>>

\* C21 witness: an immutable step of several rounds on an empty stash,
\* the other stashes holding paths, returned another handle on an equal store
C21_Witness ==
    /\ last.op = "step" /\ last.args.n = Some(MaxN) /\ last.status = "ok"
    /\ Stepped = <<>>
    /\ last.pre.immutable /\ last.ret # last.h
    /\ AllPaths(Before) # {}
    /\ After = Before

(***************************************************************************)
(* Calls of step and explore that run several rounds, on a session         *)
(* created with or without resilience.                                     *)
(***************************************************************************)
InitRounds ==
    /\ \E w \in DistinctSeqs(Roots, MaxLen), immutable \in BOOLEAN, resilience \in BOOLEAN :
          pgs = <<PathGroup(Some(w), None, None, None, None, Some(immutable), Some(resilience),
                            None, None, 1)>>
    /\ hier = <<<<>>>>
    /\ last = NoCall
    /\ nops = 0

\* the numbers of rounds a caller asks for
RoundCounts == {None} \cup {Some(k) : k \in 0..MaxN}

\* pg.step(n=n)
StepRounds ==
    /\ last.op = "init"
    /\ \E n \in RoundCounts :
          Commit("step", [n |-> n, stash |-> None, successor_func |-> None, check_func |-> None],
                 1, step(pgs[1], n, None, None, None, None, None, Len(hier)))

\* the conditions a caller avoids: none, an address, a set of addresses
\* one of which is also looked for
AvoidCondition(tag) ==
    CASE tag = "none" -> None
      [] tag = "int" -> Some([tag |-> "int", v |-> 3])
      [] tag = "set" -> Some([tag |-> "set", v |-> {2, 3}])

\* pg.explore(n=n, find=..., avoid=..., num_find=...)
ExploreRounds ==
    /\ last.op = "init"
    /\ \E n \in RoundCounts, tag \in {"int", "set"}, avoid_tag \in {"none", "int", "set"},
          num_find \in {None, Some(0), Some(2)} :
          Commit("explore", [stash |-> None, n |-> n, find |-> Some(FindCondition(tag)),
                             avoid |-> AvoidCondition(avoid_tag),
                             num_find |-> num_find, found_stash |-> None, avoid_stash |-> None],
                 1, explore(pgs[1], None, n, Some(FindCondition(tag)), AvoidCondition(avoid_tag), num_find,
                            None, None, Len(hier)))

NextRounds == StepRounds \/ ExploreRounds

SpecRounds == InitRounds /\ [][NextRounds]_vars

\* C22: on a handle created with resilience, in immutable mode, a step or
\* an explore of any number of rounds does not propagate the failure of a
\* path's successor computation: the call returns a handle.
C22_ResilientEveryRound ==
    (last.op \in {"step", "explore"} /\ last.pre.resilience /\ last.pre.immutable) =>
        last.status = "ok"

\* the rounds the loop of the latest call may run: n, or 1 for a step
\* without until, or the default bound for explore, which passes an until
RoundLimit ==
    IF last.args.n # None THEN OrDefault(last.args.n, 1)
    ELSE IF last.op = "explore" THEN DefaultUntilN ELSE 1

\* the until predicate of the latest call is true on store st
UntilTrue(st) ==
    last.op = "explore" /\ Len(st.found) >= Baseline + OrDefault(last.args.num_find, 1)

\* the loop stops after a round whose handle, the hook applied, has store st
LoopStops(st) == st[Src] = <<>> \/ UntilTrue(st)

\* the latest call made with n = r instead
Again(r) ==
    IF last.op = "explore" THEN Shorter(r)
    ELSE step(last.pre, Some(r), None, last.args.stash, last.args.successor_func, None,
              last.args.check_func, Len(hier))

\* C23: the loop of step runs at most n rounds (1 for a step given neither
\* n nor until, the default bound when only until is given); it runs a
\* first round whatever until says, ends before its bound only after a
\* round whose handle, the hook applied, has an empty driven stash or makes
\* until true, and runs no round after such a round.
C23_StepLoopBounded ==
    (last.op \in {"step", "explore"} /\ last.status # "hang") =>
        /\ last.rounds <= RoundLimit
        /\ (last.status = "ok" /\ RoundLimit >= 1) => last.rounds >= 1
        /\ (last.status = "ok" /\ last.rounds < RoundLimit) => LoopStops(After)
        /\ \A r \in 1..(last.rounds - 1) :
              /\ Again(r).status = "ok"
              /\ Again(r).rounds = r
              /\ ~LoopStops(Again(r).ret.stashes)

\* C23 witness: an explore given no n ran two rounds and stopped when the
\* second made until true, the first having left the driven stash non-empty
C23_Witness ==
    /\ last.op = "explore" /\ last.status = "ok"
    /\ last.args.n = None
    /\ last.rounds = 2
    /\ UntilTrue(After)
    /\ Again(1).ret.stashes.active # <<>>

(***************************************************************************)
(* Properties of the rounds of explore.                                    *)
(***************************************************************************)
\* the find and the avoid condition of the latest call hold of p
Finds(p) == Call(_condition_to_lambda(last.args.find, FALSE), p)

Avoids(p) == Call(_condition_to_lambda(last.args.avoid, FALSE), p)

\* the store the last round of the latest call started from
RoundStart == IF last.rounds <= 1 THEN Before ELSE Again(last.rounds - 1).ret.stashes

\* the handle the last round was run on swallows failures
RoundResilient == last.pre.resilience /\ (last.rounds <= 1 \/ ~last.pre.immutable)

\* the successors the last round produced
RoundSuccessors ==
    UNION {Range(successors(a)) : a \in {b \in Range(RoundStart.active) : ~errored(b) /\ ~raises(b)}}

\* what was appended to stash k during the last round
Gained(k) == SubSeq(Held(After, k), Len(Held(RoundStart, k)) + 1, Len(Held(After, k)))

\* C24: after a round of explore, the source stash holds no path that
\* satisfies find or avoid, the found stash has gained only paths that
\* satisfy find, the avoid stash only paths that satisfy avoid and not
\* find, and every successor the round produced is held once, in one of
\* the source, the found and the avoid stash.
C24_ExploreSortsSuccessors ==
    (last.op = "explore" /\ last.status = "ok" /\ last.rounds >= 1) =>
        /\ \A p \in Range(After.active) : ~Finds(p) /\ ~Avoids(p)
        /\ Held(After, "found") = Held(RoundStart, "found") \o Gained("found")
        /\ \A p \in Range(Gained("found")) : Finds(p)
        /\ Held(After, "avoid") = Held(RoundStart, "avoid") \o Gained("avoid")
        /\ \A p \in Range(Gained("avoid")) : Avoids(p) /\ ~Finds(p)
        /\ \A p \in RoundSuccessors :
              Count(p, After.active) + Count(p, Gained("found")) + Count(p, Gained("avoid")) = 1

\* C24 witness: a round whose successors went one to found, though it
\* satisfies avoid too, one to avoid, and one stayed in the source
C24_Witness ==
    /\ last.op = "explore" /\ last.status = "ok" /\ last.rounds = 1
    /\ \E p \in Range(Gained("found")) : Avoids(p)
    /\ Gained("avoid") # <<>>
    /\ After.active # <<>>
    /\ Cardinality(RoundSuccessors) = 3

(***************************************************************************)
(* Side successors and the frame of a step round.                          *)
(***************************************************************************)
\* p is stepped in the normal branch, is not errored, and its successors
\* are obtained
Normal(p) == ~Accelerated(p) /\ ~Flagged(p) /\ ~raises(p)

\* the round appended the side successors side(p) of every normal path to
\* stash k
SideSaved(k, side(_)) ==
    \A p \in Range(Stepped) : Normal(p) =>
        \A u \in Range(side(p)) : Count(u, After[k]) = Count(u, Before[k]) + 1

\* the round of a call that passes no successor function saves the side
\* successors
OwnSuccessorsSaved ==
    (RoundDone /\ last.args.successor_func = None) =>
        /\ last.pre.save_unconstrained => SideSaved("unconstrained", unconstrained_successors)
        /\ last.pre.save_unsat => SideSaved("unsat", unsat_successors)

\* C25: in a step round, with save_unconstrained (save_unsat) on, the
\* unconstrained (unsatisfiable) successors of every path stepped in the
\* normal branch and not errored are appended to the unconstrained (unsat)
\* stash, whether or not the caller passes a successor function; with the
\* option off that stash is left as it was.
C25_SideSuccessorsSaved ==
    RoundDone =>
        /\ last.pre.save_unconstrained => SideSaved("unconstrained", unconstrained_successors)
        /\ last.pre.save_unsat => SideSaved("unsat", unsat_successors)
        /\ ~last.pre.save_unconstrained => After.unconstrained = Before.unconstrained
        /\ ~last.pre.save_unsat => After.unsat = Before.unsat

(***************************************************************************)
(* Order of the paths under the moving operations.                         *)
(***************************************************************************)
\* the source and the destination of the latest stash, unstash or prune
MovedFrom ==
    IF last.op = "unstash" THEN OrDefault(last.args.from_stash, "stashed")
    ELSE OrDefault(last.args.from_stash, "active")

MovedTo ==
    CASE last.op = "stash" -> OrDefault(last.args.to_stash, "stashed")
      [] last.op = "prune" -> OrDefault(last.args.to_stash, "pruned")
      [] OTHER -> OrDefault(last.args.to_stash, "active")

\* the paths of the source the call left there, and those it took away,
\* each in the order the source held them
Stayed == SelectSeq(Before[MovedFrom], LAMBDA p : p \in Range(After[MovedFrom]))

Left == SelectSeq(Before[MovedFrom], LAMBDA p : p \notin Range(After[MovedFrom]))

\* the call left the source in its old order and appended to the
\* destination in the source's order
OrderKept ==
    /\ After[MovedFrom] = Stayed
    /\ Held(After, MovedTo) = Held(Before, MovedTo) \o Left

\* stash and unstash keep the order
MoveKeepsOrder ==
    (last.op \in {"stash", "unstash"} /\ last.status = "ok" /\ MovedFrom # MovedTo) => OrderKept

\* C26: stash, unstash and prune from a stash into another leave the paths
\* that stay in the source stash in their old relative order and append the
\* paths they move to the destination in their old relative order.
C26_OrderPreserved ==
    (last.op \in {"stash", "unstash", "prune"} /\ last.status = "ok" /\ MovedFrom # MovedTo) => OrderKept

\* the stashes a round appends classified paths and side successors to
AppendedStashes == {"pruned", "errored", "deadended", "unconstrained", "unsat"}

\* the store the round left: the returned handle's, or, when the round
\* raised, the store of the handle it was called on
RoundStore == IF last.status = "ok" THEN After ELSE pgs[last.h].stashes

\* s is the beginning of t
IsPrefix(s, t) == Len(s) <= Len(t) /\ SubSeq(t, 1, Len(s)) = s

\* C27: a step round in which no path is accelerated leaves the stash
\* names as they were and every stash other than the source and pruned,
\* errored, deadended, unconstrained and unsat with the contents it had;
\* what each of those five held, the source apart, is the beginning of
\* what it holds after the round.
C27_RoundFrame ==
    (OneRound /\ Has(Before, Src) /\ last.status # "hang" /\ \A p \in Range(Stepped) : ~Accelerated(p)) =>
        /\ DOMAIN RoundStore = DOMAIN Before
        /\ \A k \in DOMAIN Before \ (AppendedStashes \cup {Src}) : RoundStore[k] = Before[k]
        /\ \A k \in AppendedStashes \ {Src} : IsPrefix(Before[k], RoundStore[k])

\* C27 witness: a round of active that appended to errored and to
\* deadended and left the paths of stashed alone
C27_Witness ==
    /\ RoundDone /\ Src = "active"
    /\ \A p \in Range(Stepped) : ~Accelerated(p)
    /\ Len(After.errored) > Len(Before.errored)
    /\ Len(After.deadended) > Len(Before.deadended)
    /\ After.stashed = Before.stashed /\ Before.stashed # <<>>
    /\ After.active # Before.active

=============================================================================
